---- MODULE Spec2Model ----
\* A model of cria_django_uv.py: the interactive script that creates a Django
\* project with uv.  Text (console input, file contents) is a sequence of
\* one-character strings; a file is a record [exists, text]; a directory of
\* the disk is a record [exists, rootExists, entries].
EXTENDS Integers, Sequences, FiniteSets, TLC

VARIABLES
    pc,             \* position of main(), or of a single-function run
    system_choice,  \* main: system_choice (line 83)
    name_raw,       \* the line typed at the name prompt, before .strip()
    name,           \* main: name (line 85)
    base_dir,       \* main: base_dir (line 90)
    run_server,     \* main: run_server (line 92)
    uvOnPath,       \* whether shutil.which("uv") finds uv (line 23)
    disk,           \* base directory -> the state of it and of project_root
    disk0,          \* the disk when the script started
    settings,       \* the file project_root/name/settings.py
    gitignore,      \* the file project_root/.gitignore
    out,            \* what has been printed, as message tags
    cmds,           \* the external commands run so far, with their exit codes
    raised,         \* returncode of the CalledProcessError in flight, 0 if none
    exitStatus,     \* the script's exit status, -1 while it runs
    steps,          \* the steps of main() begun so far, each with its outcome
    hist            \* file contents before/after each pass of a file function

vars ==
    << pc, system_choice, name_raw, name, base_dir, run_server, uvOnPath, disk,
       disk0, settings, gitignore, out, cmds, raised, exitStatus, steps, hist >>

\* ------------------------------------------------------------------ bounds

\* longest line typed at the name prompt
MaxNameLen == 2
\* most fragments a settings.py content is assembled from
MaxParts == 4
\* most fragments a prior .gitignore content is assembled from
MaxGiParts == 3

\* ------------------------------------------------------------------- text

\* what str.strip() and the regex class \s treat as whitespace
Space == { " ", "\t", "\n", "\r", "\f" }

NoFile == [exists |-> FALSE, text |-> << >>]

FileOf(t) == [exists |-> TRUE, text |-> t]

\* str.strip(): drop leading and trailing whitespace
StripIdentity(s) == s

RECURSIVE Strip(_)
Strip(s) ==
    IF s = << >> THEN << >>
    ELSE IF Head(s) \in Space THEN Strip(Tail(s))
    ELSE IF s[Len(s)] \in Space THEN Strip(SubSeq(s, 1, Len(s) - 1))
    ELSE s

\* str.lower() on the characters the prompts can receive
Lower(s) == [i \in 1..Len(s) |-> IF s[i] = "S" THEN "s" ELSE IF s[i] = "N" THEN "n" ELSE s[i]]

\* Path.read_text(): text mode with universal newlines, "\r\n" and "\r"
\* are read as "\n"
\* (a "\r" becomes "\n", and the "\n" right after a "\r" is dropped)
ReadText(b) ==
    LET marked == [i \in 1..Len(b) |->
                     IF b[i] = "\r" THEN "\n"
                     ELSE IF b[i] = "\n" /\ i > 1 /\ b[i - 1] = "\r" THEN ""
                     ELSE b[i]]
        Kept(c) == c # ""
    IN  SelectSeq(marked, Kept)

\* os.linesep on the systems the script supports (macOS, Linux, WSL)
Linesep == << "\n" >>

\* Path.write_text(): text mode, each "\n" is written as os.linesep
RECURSIVE WriteText(_)
WriteText(t) ==
    IF t = << >> THEN << >>
    ELSE IF Len(t) = 1 THEN (IF t[1] = "\n" THEN Linesep ELSE t)
    ELSE LET h == Len(t) \div 2
         IN  WriteText(SubSeq(t, 1, h)) \o WriteText(SubSeq(t, h + 1, Len(t)))

\* --------------------------------------------------- tweak_allowed_hosts

Name ==
    << "A", "L", "L", "O", "W", "E", "D", "_", "H", "O", "S", "T", "S" >>

ReplacementUnbracketed ==
    << "A", "L", "L", "O", "W", "E", "D", "_", "H", "O", "S", "T",
       "S", " ", "=", " ", "'", "l", "o", "c", "a", "l", "h", "o",
       "s", "t", "'" >>

Replacement ==
    << "A", "L", "L", "O", "W", "E", "D", "_", "H", "O", "S", "T",
       "S", " ", "=", " ", "[", "'", "l", "o", "c", "a", "l", "h",
       "o", "s", "t", "'", ",", " ", "'", "1", "2", "7", ".", "0",
       ".", "0", ".", "1", "'", ",", " ", "'", "0", ".", "0", ".",
       "0", ".", "0", "'", "]" >>

\* \s* from position i: the first position at or after i that holds no
\* whitespace (Len(t) + 1 when the text ends first)
SkipSpace(t, i) ==
    CHOOSE j \in i..(Len(t) + 1) :
        /\ \A k \in i..(j - 1) : t[k] \in Space
        /\ j = Len(t) + 1 \/ t[j] \notin Space

\* [^\]]*\] from position i: the position of the first "]" at or after i,
\* 0 when there is none
FindClose(t, i) ==
    LET closes == { j \in i..Len(t) : t[j] = "]" }
    IN  IF closes = {} THEN 0
        ELSE CHOOSE j \in closes : \A k \in closes : j <= k

\* the pattern ALLOWED_HOSTS\s*=\s*\[[^\]]*\] tried at position i: the
\* position after the match, 0 when it does not match there
MatchEnd(t, i) ==
    LET a == i + Len(Name)
    IN  IF a - 1 > Len(t) \/ SubSeq(t, i, a - 1) # Name THEN 0
        ELSE LET b == SkipSpace(t, a)
             IN  IF b > Len(t) \/ t[b] # "=" THEN 0
                 ELSE LET c == SkipSpace(t, b + 1)
                      IN  IF c > Len(t) \/ t[c] # "[" THEN 0
                          ELSE LET d == FindClose(t, c + 1)
                               IN  IF d = 0 THEN 0 ELSE d + 1

\* the leftmost position where the pattern matches, 0 when none
Search(t, i) ==
    LET starts == { j \in i..Len(t) : MatchEnd(t, j) # 0 }
    IN  IF starts = {} THEN 0
        ELSE CHOOSE j \in starts : \A k \in starts : j <= k

\* re.sub(pattern, replacement, text, count=1)
re_sub(t) ==
    LET i == Search(t, 1)
    IN  IF i = 0 THEN t
        ELSE SubSeq(t, 1, i - 1) \o Replacement \o SubSeq(t, MatchEnd(t, i), Len(t))

\* tweak_allowed_hosts(settings_path): the bytes written back for bytes b
tweak_allowed_hosts(b) == WriteText(re_sub(ReadText(b)))

\* ------------------------------------------------------- write_gitignore

GitignoreText ==
    << "#", " ", "P", "y", "t", "h", "o", "n", "\n", "_", "_", "p",
       "y", "c", "a", "c", "h", "e", "_", "_", "/", "\n", "*", ".",
       "p", "y", "[", "c", "o", "d", "]", "\n", "*", ".", "s", "q",
       "l", "i", "t", "e", "3", "\n", ".", "D", "S", "_", "S", "t",
       "o", "r", "e", "\n", "\n", "#", " ", "u", "v", " ", "v", "e",
       "n", "v", "\n", ".", "v", "e", "n", "v", "/", "\n", "\n", "#",
       " ", "D", "j", "a", "n", "g", "o", "\n", "s", "t", "a", "t",
       "i", "c", "f", "i", "l", "e", "s", "/", "\n", "m", "e", "d",
       "i", "a", "/", "\n", ".", "e", "n", "v", "\n" >>

\* a writer that opens the file for appending instead of truncating it
write_gitignore_append(prior) == FileOf(prior.text \o WriteText(GitignoreText))

\* write_gitignore(project_dir): the file after the call, given the file before
write_gitignore(prior) == FileOf(WriteText(GitignoreText))

\* ------------------------------------------------------------ environment

\* lines that can be typed at the operating-system prompt
SystemInputs == { << "1" >>, << "2" >>, << "3" >>, << "4" >>, << "9" >>, << " ", "2" >> }

NameChars == { " ", "b" }

\* lines that can be typed at the name prompt
NameInputs == UNION { [1..k -> NameChars] : k \in 0..MaxNameLen }

\* lines that can be typed at the directory prompt
BaseInputs == { << >>, << " " >>, << "/", "n", " " >> }

\* lines that can be typed at the server prompt
ServerInputs == { << "s" >>, << "S", " " >>, << "n" >>, << >> }

\* exit codes an external command can end with
ExitCodes == { 0, 1, 2 }

\* the directories a base_dir can resolve to
Places == { "cwd", "/n" }

\* Path(base_dir).expanduser().resolve()
Resolve(b) == IF b = << "." >> THEN "cwd" ELSE "/n"

NoDir == [exists |-> FALSE, rootExists |-> FALSE, entries |-> {}]

\* the states a base directory and the project_root under it can start in
DirStates(p) ==
    (IF p = "cwd" THEN {} ELSE { NoDir })
    \cup { [exists |-> TRUE, rootExists |-> FALSE, entries |-> {}],
           [exists |-> TRUE, rootExists |-> TRUE, entries |-> {}],
           [exists |-> TRUE, rootExists |-> TRUE, entries |-> { "old.txt" }] }

DjangoLine ==
    << "A", "L", "L", "O", "W", "E", "D", "_", "H", "O", "S", "T",
       "S", " ", "=", " ", "[", "]" >>

\* contents django-admin startproject can give settings.py
GeneratedSettings ==
    { << "D", "=", "1", "\n" >> \o DjangoLine \o << "\n" >>,
      DjangoLine \o << "\r", "\n", "#" >> \o DjangoLine }

\* ------------------------------------------------------------------- run

\* a runner that never checks the exit code
RunRaisesNever(check, rc) == FALSE

\* run(cmd, cwd, check): subprocess.run raises CalledProcessError(rc)
RunRaises(check, rc) == check /\ rc # 0

\* an exit status taken from the failed command
UncaughtStatusOfCommand(rc) == rc

\* the interpreter's exit status when main() ends by an exception nobody
\* catches, here the CalledProcessError with returncode rc
UncaughtStatus(rc) == 1

Run(cmd, check, rc, next) ==
    /\ out' = Append(out, cmd)
    /\ cmds' = Append(cmds, [cmd |-> cmd, check |-> check, rc |-> rc])
    /\ steps' = Append(steps, [step |-> cmd, ok |-> rc = 0])
    /\ IF RunRaises(check, rc)
       THEN /\ raised' = rc
            /\ exitStatus' = UncaughtStatus(rc)
            /\ pc' = "exited"
       ELSE /\ raised' = raised
            /\ exitStatus' = (IF next = "exited" THEN 0 ELSE exitStatus)
            /\ pc' = next

\* what a command leaves under project_root: its artifacts when it succeeds,
\* all or none of them when it fails
Leaves(rc, artifacts) ==
    IF rc = 0 THEN { artifacts } ELSE { artifacts, {} }

root == disk[Resolve(base_dir)]

AddEntries(new) ==
    disk' = [disk EXCEPT ![Resolve(base_dir)].entries = @ \cup new]

\* ------------------------------------------------------------- ensure_uv

InstructionsShifted(choice) ==
    IF choice = << "1" >> THEN "instr_macos"
    ELSE IF choice = << "2" >> THEN "instr_fedora"
    ELSE IF choice = << "3" >> THEN "instr_ubuntu"
    ELSE IF choice = << "4" >> THEN "instr_wsl"
    ELSE "instr_generic"

\* the instructions ensure_uv prints for a selection
Instructions(choice) ==
    IF choice = << "1" >> THEN "instr_macos"
    ELSE IF choice = << "2" >> THEN "instr_ubuntu"
    ELSE IF choice = << "3" >> THEN "instr_fedora"
    ELSE IF choice = << "4" >> THEN "instr_wsl"
    ELSE "instr_generic"

\* ------------------------------------------------------------------ main

Init ==
    /\ pc = "ask_system"
    /\ system_choice = << >>
    /\ name_raw = << >>
    /\ name = << >>
    /\ base_dir = << >>
    /\ run_server = FALSE
    /\ uvOnPath \in BOOLEAN
    /\ disk \in { d \in [Places -> UNION { DirStates(p) : p \in Places }] :
                    \A p \in Places : d[p] \in DirStates(p) }
    /\ disk0 = disk
    /\ settings = NoFile
    /\ gitignore = NoFile
    /\ out = << >>
    /\ cmds = << >>
    /\ raised = 0
    /\ exitStatus = -1
    /\ steps = << >>
    /\ hist = << >>

\* line 83
AskSystem ==
    /\ pc = "ask_system"
    /\ \E line \in SystemInputs : system_choice' = Strip(line)
    /\ pc' = "ask_name"
    /\ UNCHANGED << name_raw, name, base_dir, run_server, uvOnPath, disk, disk0,
                    settings, gitignore, out, cmds, raised, exitStatus, steps, hist >>

\* lines 85-88
AskName ==
    /\ pc = "ask_name"
    /\ \E line \in NameInputs :
         /\ name_raw' = line
         /\ name' = Strip(line)
    /\ IF name' = << >>
       THEN /\ out' = Append(out, "err_name")
            /\ exitStatus' = 1
            /\ steps' = Append(steps, [step |-> "prompt", ok |-> FALSE])
            /\ pc' = "exited"
       ELSE /\ pc' = "ask_base"
            /\ UNCHANGED << out, exitStatus, steps >>
    /\ UNCHANGED << system_choice, base_dir, run_server, uvOnPath, disk, disk0,
                    settings, gitignore, cmds, raised, hist >>

\* line 90
AskBaseDir ==
    /\ pc = "ask_base"
    /\ \E line \in BaseInputs :
         base_dir' = (IF Strip(line) = << >> THEN << "." >> ELSE Strip(line))
    /\ pc' = "ask_server"
    /\ UNCHANGED << system_choice, name_raw, name, run_server, uvOnPath, disk, disk0,
                    settings, gitignore, out, cmds, raised, exitStatus, steps, hist >>

\* line 92
AskServer ==
    /\ pc = "ask_server"
    /\ \E line \in ServerInputs : run_server' = (Lower(Strip(line)) = << "s" >>)
    /\ steps' = Append(steps, [step |-> "prompt", ok |-> TRUE])
    /\ pc' = "validate"
    /\ UNCHANGED << system_choice, name_raw, name, base_dir, uvOnPath, disk, disk0,
                    settings, gitignore, out, cmds, raised, exitStatus, hist >>

\* a check that rejects the empty directory and lets the occupied one pass
TargetOccupiedInverted(d) == d.rootExists /\ d.entries = {}

\* project_root.exists() and any(project_root.iterdir())
TargetOccupied(d) == d.rootExists /\ d.entries # {}

\* project_root.mkdir(parents=True, exist_ok=True)
Mkdir(d) == [exists |-> TRUE, rootExists |-> TRUE, entries |-> d.entries]

\* lines 94-98
Validate ==
    /\ pc = "validate"
    /\ IF TargetOccupied(root)
       THEN /\ out' = Append(out, "err_nonempty")
            /\ exitStatus' = 1
            /\ steps' = Append(steps, [step |-> "validate", ok |-> FALSE])
            /\ pc' = "exited"
            /\ UNCHANGED disk
       ELSE /\ disk' = [disk EXCEPT ![Resolve(base_dir)] = Mkdir(@)]
            /\ steps' = Append(steps, [step |-> "validate", ok |-> TRUE])
            /\ pc' = "ensure_uv"
            /\ UNCHANGED << out, exitStatus >>
    /\ UNCHANGED << system_choice, name_raw, name, base_dir, run_server, uvOnPath,
                    disk0, settings, gitignore, cmds, raised, hist >>

\* lines 101, 21-51
EnsureUv ==
    /\ pc = "ensure_uv"
    /\ IF uvOnPath
       THEN /\ steps' = Append(steps, [step |-> "ensure_uv", ok |-> TRUE])
            /\ pc' = "venv"
            /\ UNCHANGED << out, exitStatus >>
       ELSE /\ out' = out \o << "uv_missing", Instructions(system_choice) >>
            /\ exitStatus' = 1
            /\ steps' = Append(steps, [step |-> "ensure_uv", ok |-> FALSE])
            /\ pc' = "exited"
    /\ UNCHANGED << system_choice, name_raw, name, base_dir, run_server, uvOnPath,
                    disk, disk0, settings, gitignore, cmds, raised, hist >>

\* lines 103-104
CreateVenv ==
    /\ pc = "venv"
    /\ \E rc \in ExitCodes :
         /\ Run("venv", TRUE, rc, "install")
         /\ \E new \in Leaves(rc, { ".venv" }) : AddEntries(new)
    /\ UNCHANGED << system_choice, name_raw, name, base_dir, run_server, uvOnPath,
                    disk0, settings, gitignore, hist >>

\* lines 110-111
InstallDjango ==
    /\ pc = "install"
    /\ \E rc \in ExitCodes :
         /\ Run("install", TRUE, rc, "startproject")
         /\ \E new \in Leaves(rc, { "django-admin" }) : AddEntries(new)
    /\ UNCHANGED << system_choice, name_raw, name, base_dir, run_server, uvOnPath,
                    disk0, settings, gitignore, hist >>

\* lines 113-114
StartProject ==
    /\ pc = "startproject"
    /\ \E rc \in ExitCodes :
         /\ Run("startproject", TRUE, rc, "tweak")
         /\ \E new \in Leaves(rc, { "manage.py", "package" }) :
              /\ AddEntries(new)
              /\ IF new = {}
                 THEN settings' = settings
                 ELSE \E t \in GeneratedSettings : settings' = FileOf(t)
    /\ UNCHANGED << system_choice, name_raw, name, base_dir, run_server, uvOnPath,
                    disk0, gitignore, hist >>

\* lines 116-117; startproject has succeeded, so settings.py is there
TweakSettings ==
    /\ pc = "tweak"
    /\ settings.exists
    /\ settings' = FileOf(tweak_allowed_hosts(settings.text))
    /\ hist' = << settings.text, settings'.text >>
    /\ steps' = Append(steps, [step |-> "tweak", ok |-> TRUE])
    /\ pc' = "gitignore"
    /\ UNCHANGED << system_choice, name_raw, name, base_dir, run_server, uvOnPath,
                    disk, disk0, gitignore, out, cmds, raised, exitStatus >>

\* line 118
WriteGitignore ==
    /\ pc = "gitignore"
    /\ gitignore' = write_gitignore(gitignore)
    /\ AddEntries({ ".gitignore" })
    /\ steps' = Append(steps, [step |-> "gitignore", ok |-> TRUE])
    /\ pc' = "migrate"
    /\ UNCHANGED << system_choice, name_raw, name, base_dir, run_server, uvOnPath,
                    disk0, settings, out, cmds, raised, exitStatus, hist >>

\* a script that reports success without running the migration
MigrateSkipped ==
    /\ pc = "migrate"
    /\ pc' = "summary"
    /\ UNCHANGED << system_choice, name_raw, name, base_dir, run_server, uvOnPath,
                    disk, disk0, settings, gitignore, out, cmds, raised, exitStatus,
                    steps, hist >>

\* lines 120-121
Migrate ==
    /\ pc = "migrate"
    /\ \E rc \in ExitCodes :
         /\ Run("migrate", TRUE, rc, "summary")
         /\ \E new \in Leaves(rc, { "db.sqlite3" }) : AddEntries(new)
    /\ UNCHANGED << system_choice, name_raw, name, base_dir, run_server, uvOnPath,
                    disk0, settings, gitignore, hist >>

\* lines 123-129: the summary, then the end of main() unless a server was asked for
Summary ==
    /\ pc = "summary"
    /\ out' = Append(out, "summary")
    /\ IF run_server
       THEN pc' = "server" /\ UNCHANGED exitStatus
       ELSE pc' = "exited" /\ exitStatus' = 0
    /\ UNCHANGED << system_choice, name_raw, name, base_dir, run_server, uvOnPath,
                    disk, disk0, settings, gitignore, cmds, raised, steps, hist >>

ServerCheckStrict == TRUE

\* line 134: check=False
ServerCheck == FALSE

\* lines 130-135
RunServer ==
    /\ pc = "server"
    /\ \E rc \in ExitCodes : Run("runserver", ServerCheck, rc, "exited")
    /\ UNCHANGED << system_choice, name_raw, name, base_dir, run_server, uvOnPath,
                    disk, disk0, settings, gitignore, hist >>

Next ==
    \/ AskSystem
    \/ AskName
    \/ AskBaseDir
    \/ AskServer
    \/ Validate
    \/ EnsureUv
    \/ CreateVenv
    \/ InstallDjango
    \/ StartProject
    \/ TweakSettings
    \/ WriteGitignore
    \/ Migrate
    \/ Summary
    \/ RunServer

Spec == Init /\ [][Next]_vars

\* ------------------------------------------- the file functions on their own

\* the pieces settings.py contents are assembled from
Fragments ==
    { Name, DjangoLine, << "\n" >>, << "\r" >>, << "=" >>, << "[" >>, << "]" >>, << "x" >> }

RECURSIVE Texts(_)
Texts(n) ==
    IF n = 0 THEN { << >> }
    ELSE LET shorter == Texts(n - 1)
         IN  shorter \cup { t \o f : t \in shorter, f \in Fragments }

\* the pieces prior .gitignore contents are assembled from
GiFragments ==
    { << ".", "v", "e", "n", "v", "/", "\n" >>, << "d", "i", "s", "t", "/", "\n" >>,
      << "#" >>, << "\n" >> }

RECURSIVE GiTexts(_)
GiTexts(n) ==
    IF n = 0 THEN { << >> }
    ELSE LET shorter == GiTexts(n - 1)
         IN  shorter \cup { t \o f : t \in shorter, f \in GiFragments }

\* main() is not running: only the file under test varies
Idle ==
    /\ system_choice = << >>
    /\ name_raw = << >>
    /\ name = << >>
    /\ base_dir = << >>
    /\ run_server = FALSE
    /\ uvOnPath = TRUE
    /\ disk = [p \in Places |-> [exists |-> TRUE, rootExists |-> TRUE, entries |-> {}]]
    /\ disk0 = disk
    /\ out = << >>
    /\ cmds = << >>
    /\ raised = 0
    /\ exitStatus = -1
    /\ steps = << >>
    /\ hist = << >>

InitTweak ==
    /\ pc = "tweak_file"
    /\ \E t \in Texts(MaxParts) : settings = FileOf(t)
    /\ gitignore = NoFile
    /\ Idle

\* tweak_allowed_hosts called on an existing settings file, up to twice
TweakFile ==
    /\ pc = "tweak_file"
    /\ Len(hist) < 3
    /\ settings' = FileOf(tweak_allowed_hosts(settings.text))
    /\ hist' = (IF hist = << >> THEN << settings.text >> ELSE hist) \o << settings'.text >>
    /\ UNCHANGED << pc, system_choice, name_raw, name, base_dir, run_server, uvOnPath,
                    disk, disk0, gitignore, out, cmds, raised, exitStatus, steps >>

NextTweak == TweakFile

SpecTweak == InitTweak /\ [][NextTweak]_vars

InitGitignore ==
    /\ pc = "gitignore_file"
    /\ gitignore \in { NoFile } \cup { FileOf(t) : t \in GiTexts(MaxGiParts) }
    /\ settings = NoFile
    /\ Idle

\* write_gitignore called on a directory whose .gitignore is in any state
WriteGitignoreFile ==
    /\ pc = "gitignore_file"
    /\ gitignore' = write_gitignore(gitignore)
    /\ hist' = << gitignore.text >>
    /\ pc' = "gitignore_done"
    /\ UNCHANGED << system_choice, name_raw, name, base_dir, run_server, uvOnPath,
                    disk, disk0, settings, out, cmds, raised, exitStatus, steps >>

NextGitignore == WriteGitignoreFile

SpecGitignore == InitGitignore /\ [][NextGitignore]_vars

\* ----------------------------------------------------------- properties

Blank(s) == \A i \in 1..Len(s) : s[i] \in Space

StepNames == [i \in 1..Len(steps) |-> steps[i].step]

CmdNames == { cmds[i].cmd : i \in 1..Len(cmds) }

StepOrder ==
    << "prompt", "validate", "ensure_uv", "venv", "install", "startproject",
       "tweak", "gitignore", "migrate", "runserver" >>

IsPrefix(s, t) == Len(s) <= Len(t) /\ SubSeq(t, 1, Len(s)) = s

Before(a, b, seq) ==
    \E i \in 1..Len(seq) : \E j \in (i + 1)..Len(seq) : seq[i] = a /\ seq[j] = b

Target == Resolve(base_dir)

\* what each step that succeeded leaves under project_root
Artifacts(step) ==
    IF step = "venv" THEN { ".venv" }
    ELSE IF step = "install" THEN { "django-admin" }
    ELSE IF step = "startproject" THEN { "manage.py", "package" }
    ELSE IF step = "gitignore" THEN { ".gitignore" }
    ELSE IF step = "migrate" THEN { "db.sqlite3" }
    ELSE {}

\* C1: once a name that is empty or only whitespace has been typed, the
\* script has exited with status 1 right after the name prompt: nothing was
\* created or written, no command was run and no later step has occurred.
C1_BlankNameExits ==
    (pc \notin { "ask_system", "ask_name" } /\ Blank(name_raw))
    => /\ pc = "exited"
       /\ exitStatus = 1
       /\ out = << "err_name" >>
       /\ StepNames = << "prompt" >>
       /\ disk = disk0
       /\ ~settings.exists /\ ~gitignore.exists
       /\ cmds = << >>

C1_Witness ==
    pc = "exited" /\ Len(name_raw) = MaxNameLen /\ Blank(name_raw) /\ exitStatus = 1

\* C2: when the target directory existed with at least one entry, the script
\* has exited with status 1 at the validation, the disk is as it was at the
\* start and no command was run.
C2_OccupiedTargetExits ==
    (/\ pc \notin { "ask_system", "ask_name", "ask_base", "ask_server", "validate" }
     /\ base_dir # << >>
     /\ disk0[Target].rootExists
     /\ disk0[Target].entries # {})
    => /\ pc = "exited"
       /\ exitStatus = 1
       /\ disk = disk0
       /\ cmds = << >>
       /\ StepNames = << "prompt", "validate" >>

C2_Witness ==
    /\ pc = "exited"
    /\ base_dir # << >>
    /\ disk0[Target].entries # {}
    /\ exitStatus = 1
    /\ "err_nonempty" \in { out[i] : i \in 1..Len(out) }

\* the script stopped in ensure_uv because uv was not found
UvExit ==
    /\ pc = "exited"
    /\ ~uvOnPath
    /\ StepNames = << "prompt", "validate", "ensure_uv" >>

\* the instructions of the branch that matches the selection
BranchPrinted ==
    /\ Len(out) = 2
    /\ out[1] = "uv_missing"
    /\ system_choice = << "1" >> => out[2] = "instr_macos"
    /\ system_choice = << "2" >> => out[2] = "instr_ubuntu"
    /\ system_choice = << "3" >> => out[2] = "instr_fedora"
    /\ system_choice = << "4" >> => out[2] = "instr_wsl"
    /\ system_choice \notin { << "1" >>, << "2" >>, << "3" >>, << "4" >> }
         => out[2] = "instr_generic"

\* C3 as stated: with uv absent the script prints the matching instructions
\* and exits 1 having run no command and having created no directory other
\* than the target.
C3_OnlyTargetCreated ==
    UvExit
    => /\ exitStatus = 1
       /\ BranchPrinted
       /\ cmds = << >>
       /\ disk[Target].rootExists /\ disk[Target].entries = {}
       /\ \A p \in Places : disk[p].exists = disk0[p].exists
       /\ \A p \in Places \ { Target } : disk[p] = disk0[p]

\* C3 (amended): with uv absent the script prints the matching instructions
\* and exits 1 having run no command; the only directories it has created
\* are the target and, when the base directory was missing, the base
\* directory that the same mkdir(parents=True) creates; the target is empty.
C3_TargetAndParentsCreated ==
    UvExit
    => /\ exitStatus = 1
       /\ BranchPrinted
       /\ cmds = << >>
       /\ disk[Target] = [exists |-> TRUE, rootExists |-> TRUE, entries |-> {}]
       /\ disk0[Target].entries = {}
       /\ ~settings.exists /\ ~gitignore.exists
       /\ \A p \in Places \ { Target } : disk[p] = disk0[p]

C3_Witness ==
    /\ UvExit
    /\ system_choice = << "2" >>
    /\ ~disk0[Target].exists
    /\ disk[Target].exists

\* C4: the steps begun so far are an initial part of the fixed order, each
\* once; every step but the last begun has succeeded; and a run that has
\* ended with commands run and every checked command successful has done
\* all the mandatory steps, left all their artifacts and exited 0.
C4_LinearFlow ==
    /\ IsPrefix(StepNames, StepOrder)
    /\ \A i \in 1..(Len(steps) - 1) : steps[i].ok
    /\ (/\ pc = "exited"
        /\ cmds # << >>
        /\ \A i \in 1..Len(cmds) : cmds[i].check => cmds[i].rc = 0)
       => /\ exitStatus = 0
          /\ IsPrefix(SubSeq(StepOrder, 1, 9), StepNames)
          /\ { ".venv", "django-admin", "manage.py", "package", ".gitignore",
               "db.sqlite3" } \subseteq disk[Target].entries
          /\ settings.exists /\ gitignore.exists
          /\ ("runserver" \in CmdNames) = run_server

C4_Witness ==
    /\ pc = "exited"
    /\ exitStatus = 0
    /\ ~run_server
    /\ StepNames = SubSeq(StepOrder, 1, 9)
    /\ \A i \in 1..Len(cmds) : cmds[i].rc = 0

\* C5: a checked command that exited non-zero is the last thing the script
\* did: it is the last command and the last step, the script has exited
\* without the summary and without a server, and what the earlier successful
\* steps left (directory, artifacts, patched settings, ignore-file) is still
\* there.
C5_HaltsWithoutCleanup ==
    \A i \in 1..Len(cmds) :
        (cmds[i].check /\ cmds[i].rc # 0)
        => /\ i = Len(cmds)
           /\ pc = "exited"
           /\ exitStatus # 0
           /\ steps[Len(steps)].step = cmds[i].cmd
           /\ "summary" \notin { out[k] : k \in 1..Len(out) }
           /\ "runserver" \notin CmdNames
           /\ disk[Target].exists /\ disk[Target].rootExists
           /\ \A k \in 1..(Len(steps) - 1) :
                 /\ Artifacts(steps[k].step) \subseteq disk[Target].entries
                 /\ steps[k].step = "tweak"
                      => settings.exists /\ Len(hist) = 2 /\ settings.text = hist[2]
                 /\ steps[k].step = "gitignore"
                      => gitignore.exists /\ gitignore.text = GitignoreText

C5_Witness ==
    /\ pc = "exited"
    /\ raised # 0
    /\ cmds # << >>
    /\ cmds[Len(cmds)].cmd = "migrate"
    /\ ".gitignore" \in disk[Target].entries
    /\ settings.exists

\* C6 as stated: a checked command's non-zero exit code is the script's own
\* exit status.
C6_ExitCodePropagated ==
    \A i \in 1..Len(cmds) :
        (cmds[i].check /\ cmds[i].rc # 0) => exitStatus = cmds[i].rc

\* C6 (amended): when a checked command exits with a non-zero code c, run
\* raises a CalledProcessError that carries c and ends the script with exit
\* status 1, whatever c is; when checking is off a non-zero exit is ignored
\* and run returns normally.
C6_FailureExitsOne ==
    \A i \in 1..Len(cmds) :
        /\ (cmds[i].check /\ cmds[i].rc # 0)
           => pc = "exited" /\ raised = cmds[i].rc /\ exitStatus = 1
        /\ (~cmds[i].check /\ cmds[i].rc # 0)
           => raised = 0 /\ exitStatus = 0

C6_Witness ==
    /\ pc = "exited"
    /\ cmds # << >>
    /\ cmds[Len(cmds)].check
    /\ cmds[Len(cmds)].rc = 2
    /\ raised = 2
    /\ exitStatus = 1

\* C7: a server is started only when it was asked for, after a successful
\* migration and after the summary; a run that got to the summary and ended
\* has started the server exactly when it was asked for; and whatever the
\* server's exit code, the script then ends with status 0.
C7_ServerOptionalAndTolerated ==
    /\ "runserver" \in CmdNames
       => /\ run_server
          /\ \E i \in 1..Len(cmds) : cmds[i].cmd = "migrate" /\ cmds[i].rc = 0
          /\ Before("summary", "runserver", out)
          /\ cmds[Len(cmds)].cmd = "runserver"
          /\ pc = "exited" /\ exitStatus = 0 /\ raised = 0
    /\ (pc = "exited" /\ "summary" \in { out[k] : k \in 1..Len(out) })
       => /\ exitStatus = 0
          /\ ("runserver" \in CmdNames) = run_server

C7_Witness ==
    /\ pc = "exited"
    /\ run_server
    /\ cmds # << >>
    /\ cmds[Len(cmds)].cmd = "runserver"
    /\ cmds[Len(cmds)].rc # 0
    /\ exitStatus = 0

\* text[i..j-1] is an ALLOWED_HOSTS list assignment: the name, optional
\* whitespace, "=", optional whitespace, "[", anything but "]", then "]"
Assignment(t, i, j) ==
    /\ i + Len(Name) + 2 < j
    /\ j <= Len(t) + 1
    /\ SubSeq(t, i, i + Len(Name) - 1) = Name
    /\ t[j - 1] = "]"
    /\ \E e \in (i + Len(Name))..(j - 3) :
         /\ t[e] = "="
         /\ \A k \in (i + Len(Name))..(e - 1) : t[k] \in Space
         /\ \E o \in (e + 1)..(j - 2) :
              /\ t[o] = "["
              /\ \A k \in (e + 1)..(o - 1) : t[k] \in Space
              /\ \A k \in (o + 1)..(j - 2) : t[k] # "]"

StartsAssignment(t, i) == \E j \in (i + 1)..(Len(t) + 1) : Assignment(t, i, j)

\* new is old with only its first assignment replaced by the fixed literal,
\* every other byte kept; new is old when old holds no assignment
FirstReplaced(old, new) ==
    IF \A i \in 1..Len(old) : ~StartsAssignment(old, i)
    THEN new = old
    ELSE \E i \in 1..Len(old) :
           /\ \A h \in 1..(i - 1) : ~StartsAssignment(old, h)
           /\ \E j \in (i + 1)..(Len(old) + 1) :
                /\ Assignment(old, i, j)
                /\ new = SubSeq(old, 1, i - 1) \o Replacement \o SubSeq(old, j, Len(old))

\* C8 as stated: the file after tweak_allowed_hosts is the file before with
\* only the first assignment replaced, all other bytes identical.
C8_OnlyFirstReplaced ==
    Len(hist) >= 2 => FirstReplaced(hist[1], hist[2])

\* what does hold: the same, of contents without a carriage return
C8_OnlyFirstReplacedWithoutCR ==
    (Len(hist) >= 2 /\ \A i \in 1..Len(hist[1]) : hist[1][i] # "\r")
    => FirstReplaced(hist[1], hist[2])

\* a .gitignore line: the entry alone between two line ends or the start
HasLine(t, entry) ==
    \E i \in 1..Len(t) :
        /\ i = 1 \/ t[i - 1] = "\n"
        /\ i + Len(entry) <= Len(t)
        /\ SubSeq(t, i, i + Len(entry) - 1) = entry
        /\ t[i + Len(entry)] = "\n"

\* C9: whatever .gitignore was there before (none, or any content), after
\* write_gitignore the file holds exactly the fixed text, which lists
\* .venv/, *.sqlite3, staticfiles/ and media/.
C9_GitignoreOverwritten ==
    pc = "gitignore_done"
    => /\ gitignore.exists
       /\ gitignore.text = GitignoreText
       /\ HasLine(gitignore.text, << ".", "v", "e", "n", "v", "/" >>)
       /\ HasLine(gitignore.text, << "*", ".", "s", "q", "l", "i", "t", "e", "3" >>)
       /\ HasLine(gitignore.text,
                  << "s", "t", "a", "t", "i", "c", "f", "i", "l", "e", "s", "/" >>)
       /\ HasLine(gitignore.text, << "m", "e", "d", "i", "a", "/" >>)

C9_Witness ==
    /\ pc = "gitignore_done"
    /\ Len(hist[1]) > 0
    /\ HasLine(hist[1], << "d", "i", "s", "t", "/" >>)
    /\ gitignore.text = GitignoreText

\* C10: a second pass of tweak_allowed_hosts leaves the file as the first
\* pass left it.
C10_TweakIdempotent ==
    Len(hist) = 3 => hist[3] = hist[2]

\* two passes over a content holding two assignments, the first not yet the
\* fixed literal
C10_Witness ==
    /\ Len(hist) = 3
    /\ hist[2] # hist[1]
    /\ LET first == Search(hist[2], 1)
       IN  first # 0 /\ Search(hist[2], first + 1) # 0

====
